---- MODULE Spec2Model ----
(***************************************************************************)
(* Model of internal/service/quicksight/account_subscription.go: the       *)
(* create / read / delete handlers of aws_quicksight_account_subscription, *)
(* the two status waits and the lookup.  The remote service is the         *)
(* environment: every remote call draws its outcome from a bounded set.    *)
(* The waits follow retry.StateChangeConf.WaitForStateContext of the       *)
(* terraform-plugin-sdk, one loop iteration per Poll step.                 *)
(***************************************************************************)
EXTENDS Integers, Sequences, FiniteSets

\* ------------------------------------------------------------------ bounds
\* number of most recent observations of a wait that are remembered
MaxHist == 5

\* ------------------------------------------------------- program constants
statusCreated == "ACCOUNT_CREATED"
statusOk == "OK"
statusSignupAttemptInProgress == "SIGNUP_ATTEMPT_IN_PROGRESS"
statusUnsuscribeInProgress == "UNSUBSCRIBE_IN_PROGRESS"
statusUnsuscribed == "UNSUBSCRIBED"

ResNameAccountSubscription == "Account Subscription"

\* variant of NotFoundChecks that gives up one observation early
NotFoundChecks_OneLess == 20 - 1
\* NotFoundChecks and ContinuousTargetOccurence of the create wait
NotFoundChecks == 20
ContinuousTargetOccurence == 2
\* the values WaitForStateContext substitutes for a StateChangeConf that leaves
\* NotFoundChecks or ContinuousTargetOccurence zero, as the delete wait does
DefaultNotFoundChecks == 20
DefaultTargetOccurence == 1

\* ------------------------------------------------------------ value spaces
\* a nil pointer to a string
NULL == "<nil>"
\* a nil pointer to a struct, a nil interface value
Nil == [nil |-> TRUE]
\* a nil error
NoErr == "<no error>"

Statuses ==
  {statusCreated, statusOk, statusSignupAttemptInProgress,
   statusUnsuscribeInProgress, statusUnsuscribed}

\* the account id of the provider's credentials (meta.AccountID)
AmbientAccountID == "999999999999"

\* errors of the remote API
ErrResourceNotFound == "ResourceNotFoundException"
ErrOther == "InternalFailureException"
\* errors made by this package and its helpers
ErrNotFound == "retry.NotFoundError"
ErrEmptyResult == "tfresource.EmptyResultError"
ErrEmptyOutput == "empty output"
ErrTimeout == "retry.TimeoutError"
ErrUnexpectedState == "retry.UnexpectedStateError"

\* the attributes that are optional strings, and the optional string lists
OptionalStrings ==
  {"active_directory_name", "contact_number", "directory_id", "email_address",
   "first_name", "iam_identity_center_instance_arn", "last_name", "realm"}
OptionalLists == {"admin_group", "author_group", "reader_group"}

\* configurations: the required attributes always set; the account id given or
\* omitted; the optional attributes all omitted or all given
OptionalValues == { [s |-> "", l |-> << >>], [s |-> "cfg", l |-> <<"grp">>] }
Configs ==
  { [ id |-> "",
      aws_account_id |-> acct,
      account_name |-> "acme",
      authentication_method |-> "IAM_IDENTITY_CENTER",
      edition |-> "ENTERPRISE",
      notification_email |-> "a@b.com",
      account_subscription_status |-> "",
      active_directory_name |-> o.s,
      admin_group |-> o.l,
      author_group |-> o.l,
      reader_group |-> o.l,
      contact_number |-> o.s,
      directory_id |-> o.s,
      email_address |-> o.s,
      first_name |-> o.s,
      iam_identity_center_instance_arn |-> o.s,
      last_name |-> o.s,
      realm |-> o.s ] :
    acct \in {"", "111111111111"},
    o \in OptionalValues }

\* AccountInfo values the describe call can return: one with every pointer
\* field set, for each status, and one with every pointer field nil
AccountInfos ==
  { [ AccountName |-> "remote",
      AccountSubscriptionStatus |-> st,
      Edition |-> "STANDARD",
      NotificationEmail |-> "remote",
      IAMIdentityCenterInstanceArn |-> "remote" ] : st \in Statuses }
  \cup
  { [ AccountName |-> NULL,
      AccountSubscriptionStatus |-> NULL,
      Edition |-> "",
      NotificationEmail |-> NULL,
      IAMIdentityCenterInstanceArn |-> NULL ] }

\* raw outcomes of conn.DescribeAccountSubscription: out (nil, or with a nil or
\* set AccountInfo) and err
DescribeOutcomes ==
  { [out |-> [AccountInfo |-> i], err |-> NoErr] : i \in AccountInfos }
  \cup { [out |-> [AccountInfo |-> Nil], err |-> NoErr],
         [out |-> Nil, err |-> NoErr],
         [out |-> Nil, err |-> ErrResourceNotFound],
         [out |-> Nil, err |-> ErrOther] }

\* raw outcomes of conn.CreateAccountSubscription
CreateOutcomes ==
  { [out |-> [SignupResponse |-> "signup"], err |-> NoErr],
    [out |-> [SignupResponse |-> NULL], err |-> NoErr],
    [out |-> Nil, err |-> NoErr],
    [out |-> Nil, err |-> ErrOther] }

\* errors of conn.DeleteAccountSubscription
DeleteOutcomes == {NoErr, ErrResourceNotFound, ErrOther}

\* ---------------------------------------------------------- pure helpers
\* aws.ToString: the empty string for a nil pointer
awsToString(p) == IF p = NULL THEN "" ELSE p

\* schema.ResourceData.GetOk: ok iff the value is not the zero value of its
\* type (the empty string, the empty list)
GetOk(rd, k) == IF k \in OptionalLists THEN Len(rd[k]) > 0 ELSE rd[k] # ""

\* schema.ResourceData.Set with a pointer: a nil pointer stores the zero value
Set(rd, k, v) == [rd EXCEPT ![k] = awsToString(v)]

SetId(rd, v) == [rd EXCEPT !["id"] = v]

NoDiags == << >>

\* create.AppendDiagError
AppendDiagError(diagnostics, action, name, err) ==
  Append(diagnostics, [action |-> action, name |-> name, err |-> err])

ErrActionCreating == "creating"
ErrActionReading == "reading"
ErrActionDeleting == "deleting"
ErrActionWaitingForCreation == "waiting for creation"
ErrActionWaitingForDeletion == "waiting for delete"

\* tfresource.NotFound: a retry.NotFoundError, or an EmptyResultError, which
\* presents itself as one
NotFound(err) == err \in {ErrNotFound, ErrEmptyResult}

\* findAccountSubscriptionByID applied to the outcome of the describe call
findAccountSubscriptionByID(resp) ==
  IF resp.err = ErrResourceNotFound THEN [out |-> Nil, err |-> ErrNotFound]
  ELSE IF resp.err # NoErr THEN [out |-> Nil, err |-> resp.err]
  ELSE IF resp.out = Nil THEN [out |-> Nil, err |-> ErrEmptyResult]
  ELSE IF resp.out.AccountInfo = Nil THEN [out |-> Nil, err |-> ErrEmptyResult]
  ELSE [out |-> resp.out.AccountInfo, err |-> NoErr]

\* variant of statusAccountSubscription that returns a not-found error of the
\* lookup as an error
statusAccountSubscription_NotFoundIsError(resp) ==
  LET f == findAccountSubscriptionByID(resp) IN
  IF f.err # NoErr THEN [res |-> Nil, state |-> "", err |-> f.err, panic |-> FALSE]
  ELSE IF f.out.AccountSubscriptionStatus = NULL
       THEN [res |-> Nil, state |-> "", err |-> NoErr, panic |-> TRUE]
  ELSE [res |-> f.out, state |-> f.out.AccountSubscriptionStatus, err |-> NoErr,
        panic |-> FALSE]

\* the refresh function built by statusAccountSubscription, applied to the
\* outcome of the describe call; panic: dereference of a nil status
statusAccountSubscription(resp) ==
  LET f == findAccountSubscriptionByID(resp) IN
  IF NotFound(f.err) THEN [res |-> Nil, state |-> "", err |-> NoErr, panic |-> FALSE]
  ELSE IF f.err # NoErr THEN [res |-> Nil, state |-> "", err |-> f.err, panic |-> FALSE]
  ELSE IF f.out.AccountSubscriptionStatus = NULL
       THEN [res |-> Nil, state |-> "", err |-> NoErr, panic |-> TRUE]
  ELSE [res |-> f.out, state |-> f.out.AccountSubscriptionStatus, err |-> NoErr,
        panic |-> FALSE]

\* variant of CreatedConf with the pending statuses of both waits
CreatedConf_PendingOfBothWaits ==
  [ Pending |-> {statusSignupAttemptInProgress, statusCreated, statusOk,
                 statusUnsuscribeInProgress},
    Target |-> {statusCreated, statusOk},
    NotFoundChecks |-> NotFoundChecks,
    ContinuousTargetOccurence |-> ContinuousTargetOccurence ]

\* variant of CreatedConf that leaves ContinuousTargetOccurence unset
CreatedConf_NoContinuousTarget ==
  [ Pending |-> {statusSignupAttemptInProgress},
    Target |-> {statusCreated, statusOk},
    NotFoundChecks |-> NotFoundChecks,
    ContinuousTargetOccurence |-> 0 ]

\* the StateChangeConf of waitAccountSubscriptionCreated
CreatedConf ==
  [ Pending |-> {statusSignupAttemptInProgress},
    Target |-> {statusCreated, statusOk},
    NotFoundChecks |-> NotFoundChecks,
    ContinuousTargetOccurence |-> ContinuousTargetOccurence ]

\* variant of DeletedConf that gives up after one not-found observation
DeletedConf_OneNotFoundCheck ==
  [ Pending |-> {statusCreated, statusOk, statusUnsuscribeInProgress},
    Target |-> {statusUnsuscribed},
    NotFoundChecks |-> 1,
    ContinuousTargetOccurence |-> 0 ]

\* variant of DeletedConf that asks for the target twice, as the create wait does
DeletedConf_TwoTargetOccurences ==
  [ Pending |-> {statusCreated, statusOk, statusUnsuscribeInProgress},
    Target |-> {statusUnsuscribed},
    NotFoundChecks |-> 0,
    ContinuousTargetOccurence |-> 2 ]

\* the StateChangeConf of waitAccountSubscriptionDeleted: NotFoundChecks and
\* ContinuousTargetOccurence are left zero
DeletedConf ==
  [ Pending |-> {statusCreated, statusOk, statusUnsuscribeInProgress},
    Target |-> {statusUnsuscribed},
    NotFoundChecks |-> 0,
    ContinuousTargetOccurence |-> 0 ]

\* the defaulting at the head of WaitForStateContext
WithDefaults(conf) ==
  [conf EXCEPT
     !.NotFoundChecks = IF @ = 0 THEN DefaultNotFoundChecks ELSE @,
     !.ContinuousTargetOccurence = IF @ = 0 THEN DefaultTargetOccurence ELSE @]

\* one iteration of the refresh loop of WaitForStateContext on the refresh
\* result r, from the counters tick (notfoundTick) and occ (targetOccurence):
\* the new counters, whether the wait is over, and its error
WaitForStateStep(stateConf, tick, occ, r) ==
  LET conf == WithDefaults(stateConf) IN
  IF r.err # NoErr
    THEN [tick |-> tick, occ |-> occ, over |-> TRUE, err |-> r.err]
  ELSE IF r.res = Nil /\ conf.Target = {}
    THEN [tick |-> tick, occ |-> occ + 1,
          over |-> (conf.ContinuousTargetOccurence = occ + 1), err |-> NoErr]
  ELSE IF r.res = Nil
    THEN IF tick + 1 > conf.NotFoundChecks
           THEN [tick |-> tick + 1, occ |-> occ, over |-> TRUE, err |-> ErrNotFound]
           ELSE [tick |-> tick + 1, occ |-> occ, over |-> FALSE, err |-> NoErr]
  ELSE IF r.state \in conf.Target
    THEN [tick |-> 0, occ |-> occ + 1,
          over |-> (conf.ContinuousTargetOccurence = occ + 1), err |-> NoErr]
  ELSE IF r.state \in conf.Pending
    THEN [tick |-> 0, occ |-> 0, over |-> FALSE, err |-> NoErr]
  ELSE IF conf.Pending # {}
    THEN [tick |-> 0, occ |-> occ, over |-> TRUE, err |-> ErrUnexpectedState]
  ELSE [tick |-> 0, occ |-> occ, over |-> FALSE, err |-> NoErr]

\* variant of awsAccountId that never looks at the configuration
awsAccountId_AlwaysAmbient(cfg) == AmbientAccountID

\* the account id Create uses: the configured one if given, else the ambient
awsAccountId(cfg) ==
  IF GetOk(cfg, "aws_account_id") THEN cfg.aws_account_id ELSE AmbientAccountID

\* variant of CreateAccountSubscriptionInput that copies the optional strings
\* into the request without asking GetOk
CreateAccountSubscriptionInput_StringsUnconditional(cfg) ==
  [ AwsAccountId |-> awsAccountId(cfg),
    AccountName |-> cfg.account_name,
    AuthenticationMethod |-> cfg.authentication_method,
    Edition |-> cfg.edition,
    NotificationEmail |-> cfg.notification_email,
    ActiveDirectoryName |-> cfg.active_directory_name,
    AdminGroup |-> cfg.admin_group,
    AuthorGroup |-> cfg.author_group,
    ReaderGroup |-> cfg.reader_group,
    ContactNumber |-> cfg.contact_number,
    DirectoryId |-> cfg.directory_id,
    EmailAddress |-> cfg.email_address,
    FirstName |-> cfg.first_name,
    IAMIdentityCenterInstanceArn |-> cfg.iam_identity_center_instance_arn,
    LastName |-> cfg.last_name,
    Realm |-> cfg.realm ]

\* the CreateAccountSubscriptionInput Create builds; NULL (a nil pointer) and
\* << >> (a nil slice) are the fields left unset
CreateAccountSubscriptionInput(cfg) ==
  [ AwsAccountId |-> awsAccountId(cfg),
    AccountName |-> cfg.account_name,
    AuthenticationMethod |-> cfg.authentication_method,
    Edition |-> cfg.edition,
    NotificationEmail |-> cfg.notification_email,
    ActiveDirectoryName |->
      IF GetOk(cfg, "active_directory_name") THEN cfg.active_directory_name ELSE NULL,
    AdminGroup |->
      IF GetOk(cfg, "admin_group") /\ Len(cfg.admin_group) > 0
        THEN cfg.admin_group ELSE << >>,
    AuthorGroup |->
      IF GetOk(cfg, "author_group") /\ Len(cfg.author_group) > 0
        THEN cfg.author_group ELSE << >>,
    ReaderGroup |->
      IF GetOk(cfg, "reader_group") /\ Len(cfg.reader_group) > 0
        THEN cfg.reader_group ELSE << >>,
    ContactNumber |-> IF GetOk(cfg, "contact_number") THEN cfg.contact_number ELSE NULL,
    DirectoryId |-> IF GetOk(cfg, "directory_id") THEN cfg.directory_id ELSE NULL,
    EmailAddress |-> IF GetOk(cfg, "email_address") THEN cfg.email_address ELSE NULL,
    FirstName |-> IF GetOk(cfg, "first_name") THEN cfg.first_name ELSE NULL,
    IAMIdentityCenterInstanceArn |->
      IF GetOk(cfg, "iam_identity_center_instance_arn")
        THEN cfg.iam_identity_center_instance_arn ELSE NULL,
    LastName |-> IF GetOk(cfg, "last_name") THEN cfg.last_name ELSE NULL,
    Realm |-> IF GetOk(cfg, "realm") THEN cfg.realm ELSE NULL ]

\* variant of SetFromAccountInfo that also stores the notification email as the
\* email address
SetFromAccountInfo_AlsoEmailAddress(rd, info) ==
  LET d1 == Set(rd, "account_name", info.AccountName)
      d2 == Set(d1, "edition", info.Edition)
      d3 == Set(d2, "notification_email", info.NotificationEmail)
      d4 == Set(d3, "email_address", info.NotificationEmail)
      d5 == Set(d4, "account_subscription_status", info.AccountSubscriptionStatus)
  IN  Set(d5, "iam_identity_center_instance_arn", info.IAMIdentityCenterInstanceArn)

\* the five d.Set calls at the end of Read
SetFromAccountInfo(rd, info) ==
  LET d1 == Set(rd, "account_name", info.AccountName)
      d2 == Set(d1, "edition", info.Edition)
      d3 == Set(d2, "notification_email", info.NotificationEmail)
      d4 == Set(d3, "account_subscription_status", info.AccountSubscriptionStatus)
  IN  Set(d4, "iam_identity_center_instance_arn", info.IAMIdentityCenterInstanceArn)

\* variants of resourceAccountSubscriptionRead with one check changed
\* the check of the unsubscribed status left out
resourceAccountSubscriptionRead_NoUnsubscribedCheck(rd, new, f) ==
  IF ~new /\ NotFound(f.err)
    THEN [d |-> SetId(rd, ""), diags |-> NoDiags, panic |-> FALSE]
  ELSE IF f.err # NoErr
    THEN [d |-> rd,
          diags |-> AppendDiagError(NoDiags, ErrActionReading, rd.id, f.err),
          panic |-> FALSE]
  ELSE [d |-> SetFromAccountInfo(rd, f.out), diags |-> NoDiags, panic |-> FALSE]

\* the not-found check without its IsNewResource guard
resourceAccountSubscriptionRead_NotFoundUnguarded(rd, new, f) ==
  IF NotFound(f.err)
    THEN [d |-> SetId(rd, ""), diags |-> NoDiags, panic |-> FALSE]
  ELSE IF ~new /\ f.out = Nil
    THEN [d |-> rd, diags |-> NoDiags, panic |-> TRUE]
  ELSE IF ~new /\ awsToString(f.out.AccountSubscriptionStatus) = statusUnsuscribed
    THEN [d |-> SetId(rd, ""), diags |-> NoDiags, panic |-> FALSE]
  ELSE IF f.err # NoErr
    THEN [d |-> rd,
          diags |-> AppendDiagError(NoDiags, ErrActionReading, rd.id, f.err),
          panic |-> FALSE]
  ELSE [d |-> SetFromAccountInfo(rd, f.out), diags |-> NoDiags, panic |-> FALSE]

\* the unsubscribed check without its IsNewResource guard
resourceAccountSubscriptionRead_UnsubscribedUnguarded(rd, new, f) ==
  IF ~new /\ NotFound(f.err)
    THEN [d |-> SetId(rd, ""), diags |-> NoDiags, panic |-> FALSE]
  ELSE IF f.out = Nil
    THEN [d |-> rd, diags |-> NoDiags, panic |-> TRUE]
  ELSE IF awsToString(f.out.AccountSubscriptionStatus) = statusUnsuscribed
    THEN [d |-> SetId(rd, ""), diags |-> NoDiags, panic |-> FALSE]
  ELSE IF f.err # NoErr
    THEN [d |-> rd,
          diags |-> AppendDiagError(NoDiags, ErrActionReading, rd.id, f.err),
          panic |-> FALSE]
  ELSE [d |-> SetFromAccountInfo(rd, f.out), diags |-> NoDiags, panic |-> FALSE]

\* the first check clearing the id on any lookup error
resourceAccountSubscriptionRead_AnyErrorClears(rd, new, f) ==
  IF ~new /\ f.err # NoErr
    THEN [d |-> SetId(rd, ""), diags |-> NoDiags, panic |-> FALSE]
  ELSE IF ~new /\ awsToString(f.out.AccountSubscriptionStatus) = statusUnsuscribed
    THEN [d |-> SetId(rd, ""), diags |-> NoDiags, panic |-> FALSE]
  ELSE IF f.err # NoErr
    THEN [d |-> rd,
          diags |-> AppendDiagError(NoDiags, ErrActionReading, rd.id, f.err),
          panic |-> FALSE]
  ELSE [d |-> SetFromAccountInfo(rd, f.out), diags |-> NoDiags, panic |-> FALSE]

\* resourceAccountSubscriptionRead on resource data rd, with new =
\* d.IsNewResource() and f the result of the lookup: the resource data and the
\* diagnostics it returns with, or a panic (out is nil when the lookup failed,
\* and the status check of an established resource dereferences it)
resourceAccountSubscriptionRead(rd, new, f) ==
  IF ~new /\ NotFound(f.err)
    THEN [d |-> SetId(rd, ""), diags |-> NoDiags, panic |-> FALSE]
  ELSE IF ~new /\ f.out = Nil
    THEN [d |-> rd, diags |-> NoDiags, panic |-> TRUE]
  ELSE IF ~new /\ awsToString(f.out.AccountSubscriptionStatus) = statusUnsuscribed
    THEN [d |-> SetId(rd, ""), diags |-> NoDiags, panic |-> FALSE]
  ELSE IF f.err # NoErr
    THEN [d |-> rd,
          diags |-> AppendDiagError(NoDiags, ErrActionReading, rd.id, f.err),
          panic |-> FALSE]
  ELSE [d |-> SetFromAccountInfo(rd, f.out), diags |-> NoDiags, panic |-> FALSE]

\* variant of createCallReturned without the check of an empty output
createCallReturned_NoEmptyCheck(cfg, o) ==
  IF o.err # NoErr
    THEN [d |-> cfg, pc |-> "idle",
          diags |-> AppendDiagError(NoDiags, ErrActionCreating, cfg.account_name, o.err)]
  ELSE [d |-> SetId(cfg, awsAccountId(cfg)), pc |-> "createWait", diags |-> NoDiags]

\* variant of createCallReturned that leaves the id unset when the wait starts
createCallReturned_NoSetId(cfg, o) ==
  IF o.err # NoErr
    THEN [d |-> cfg, pc |-> "idle",
          diags |-> AppendDiagError(NoDiags, ErrActionCreating, cfg.account_name, o.err)]
  ELSE IF o.out = Nil
    THEN [d |-> cfg, pc |-> "idle",
          diags |-> AppendDiagError(NoDiags, ErrActionCreating, cfg.account_name,
                                    ErrEmptyOutput)]
  ELSE IF o.out.SignupResponse = NULL
    THEN [d |-> cfg, pc |-> "idle",
          diags |-> AppendDiagError(NoDiags, ErrActionCreating, cfg.account_name,
                                    ErrEmptyOutput)]
  ELSE [d |-> cfg, pc |-> "createWait", diags |-> NoDiags]

\* resourceAccountSubscriptionCreate from the return of the create call o to
\* the start of the wait: the two checks of the outcome, then SetId
createCallReturned(cfg, o) ==
  IF o.err # NoErr
    THEN [d |-> cfg, pc |-> "idle",
          diags |-> AppendDiagError(NoDiags, ErrActionCreating, cfg.account_name, o.err)]
  ELSE IF o.out = Nil
    THEN [d |-> cfg, pc |-> "idle",
          diags |-> AppendDiagError(NoDiags, ErrActionCreating, cfg.account_name,
                                    ErrEmptyOutput)]
  ELSE IF o.out.SignupResponse = NULL
    THEN [d |-> cfg, pc |-> "idle",
          diags |-> AppendDiagError(NoDiags, ErrActionCreating, cfg.account_name,
                                    ErrEmptyOutput)]
  ELSE [d |-> SetId(cfg, awsAccountId(cfg)), pc |-> "createWait", diags |-> NoDiags]

\* variant of deleteCallReturned without the not-found check
deleteCallReturned_NotFoundIsError(id, err) ==
  IF err # NoErr
    THEN [pc |-> "idle",
          diags |-> AppendDiagError(NoDiags, ErrActionDeleting, id, err)]
  ELSE [pc |-> "deleteWait", diags |-> NoDiags]

\* resourceAccountSubscriptionDelete from the return of the delete call to the
\* start of the wait: the two checks of its error
deleteCallReturned(id, err) ==
  IF err = ErrResourceNotFound THEN [pc |-> "idle", diags |-> NoDiags]
  ELSE IF err # NoErr
    THEN [pc |-> "idle",
          diags |-> AppendDiagError(NoDiags, ErrActionDeleting, id, err)]
  ELSE [pc |-> "deleteWait", diags |-> NoDiags]

\* variant of waitReturned in which Delete drops the error of its wait
waitReturned_DeleteWaitErrorDropped(at, id, err) ==
  IF at = "createWait"
    THEN IF err # NoErr
           THEN [pc |-> "idle",
                 diags |-> AppendDiagError(NoDiags, ErrActionWaitingForCreation, id, err)]
           ELSE [pc |-> "createRead", diags |-> NoDiags]
    ELSE [pc |-> "idle", diags |-> NoDiags]

\* variant of waitReturned in which Create returns after a successful wait
\* without the read-back
waitReturned_NoReadBack(at, id, err) ==
  IF err # NoErr
    THEN [pc |-> "idle",
          diags |-> AppendDiagError(NoDiags,
                      IF at = "createWait" THEN ErrActionWaitingForCreation
                                           ELSE ErrActionWaitingForDeletion,
                      id, err)]
    ELSE [pc |-> "idle", diags |-> NoDiags]

\* what Create (at "createWait") and Delete (at "deleteWait") do when their
\* wait returns err: a wait error ends the handler, a successful create wait
\* is followed by the read-back, a successful delete wait ends Delete
waitReturned(at, id, err) ==
  IF at = "createWait"
    THEN IF err # NoErr
           THEN [pc |-> "idle",
                 diags |-> AppendDiagError(NoDiags, ErrActionWaitingForCreation, id, err)]
           ELSE [pc |-> "createRead", diags |-> NoDiags]
    ELSE IF err # NoErr
           THEN [pc |-> "idle",
                 diags |-> AppendDiagError(NoDiags, ErrActionWaitingForDeletion, id, err)]
           ELSE [pc |-> "idle", diags |-> NoDiags]

\* ------------------------------------------------------------------- state
VARIABLES
  config,          \* the configuration of the resource
  d,               \* the resource data: id and attributes
  IsNewResource,   \* d.IsNewResource(): set while Create runs
  handler,         \* the handler that runs or has last returned
  pc,              \* where the handler stands
  steps,           \* the remote calls the handler has issued in this invocation
  in,              \* the create request sent
  callOut,         \* outcome of the remote create or delete call
  notfoundTick,    \* counter of the wait's refresh loop
  targetOccurence, \* counter of the wait's refresh loop
  hist,            \* the wait's most recent observations, oldest first
  waitErr,         \* the error the wait returned
  fetched,         \* the lookup result Read works on
  diags            \* the diagnostics the handler returned

vars ==
  << config, d, IsNewResource, handler, pc, steps, in, callOut, notfoundTick,
     targetOccurence, hist, waitErr, fetched, diags >>

\* what a poll of the wait observed: a status, nothing, or an error
ObsNotFound == "<not found>"
ObsError == "<error>"
Observation(r) ==
  IF r.err # NoErr THEN ObsError ELSE IF r.res = Nil THEN ObsNotFound ELSE r.state

\* the window of remembered observations after one more
Remember(h, o) ==
  IF Len(h) < MaxHist THEN Append(h, o) ELSE Append(Tail(h), o)

Init ==
  /\ config \in Configs
  /\ d = config
  /\ IsNewResource = FALSE
  /\ handler = "none"
  /\ pc = "idle"
  /\ steps = {}
  /\ in = Nil
  /\ callOut = Nil
  /\ notfoundTick = 0
  /\ targetOccurence = 0
  /\ hist = << >>
  /\ waitErr = NoErr
  /\ fetched = Nil
  /\ diags = NoDiags

\* resourceAccountSubscriptionCreate up to the start of the wait: the request,
\* the create call, the two checks of its outcome, SetId
CreateCall ==
  /\ pc = "idle"
  /\ d.id = ""
  /\ \E o \in CreateOutcomes :
       /\ handler' = "Create"
       /\ IsNewResource' = TRUE
       /\ steps' = {"create"}
       /\ in' = CreateAccountSubscriptionInput(config)
       /\ callOut' = o
       /\ notfoundTick' = 0
       /\ targetOccurence' = 0
       /\ hist' = << >>
       /\ waitErr' = NoErr
       /\ fetched' = Nil
       /\ LET c == createCallReturned(config, o)
          IN  /\ diags' = c.diags
              /\ d' = c.d
              /\ pc' = c.pc
  /\ UNCHANGED config

\* one refresh of a wait (waitAccountSubscriptionCreated inside Create,
\* waitAccountSubscriptionDeleted inside Delete) and what the handler does
\* when the wait returns
Poll ==
  /\ pc \in {"createWait", "deleteWait"}
  /\ \E resp \in DescribeOutcomes :
       LET r == statusAccountSubscription(resp)
           conf == IF pc = "createWait" THEN CreatedConf ELSE DeletedConf
           w == WaitForStateStep(conf, notfoundTick, targetOccurence, r)
       IN  /\ steps' = steps \cup {"poll"}
           /\ IF r.panic
                THEN /\ pc' = "panic"
                     /\ UNCHANGED << notfoundTick, targetOccurence, hist, waitErr, diags >>
                ELSE /\ notfoundTick' = w.tick
                     /\ targetOccurence' = w.occ
                     /\ hist' = Remember(hist, Observation(r))
                     /\ waitErr' = w.err
                     /\ IF ~w.over
                          THEN UNCHANGED << pc, diags >>
                          ELSE LET c == waitReturned(pc, d.id, w.err)
                               IN  /\ pc' = c.pc
                                   /\ diags' = c.diags
  /\ UNCHANGED << config, d, IsNewResource, handler, in, callOut, fetched >>

\* the timeout of a wait elapses: WaitForStateContext returns a TimeoutError
Timeout ==
  /\ pc \in {"createWait", "deleteWait"}
  /\ waitErr' = ErrTimeout
  /\ LET c == waitReturned(pc, d.id, ErrTimeout)
     IN  /\ pc' = c.pc
         /\ diags' = c.diags
  /\ UNCHANGED << config, d, IsNewResource, handler, steps, in, callOut,
                  notfoundTick, targetOccurence, hist, fetched >>

\* the read-back at the end of Create: resourceAccountSubscriptionRead on the
\* new resource
ReadBack ==
  /\ pc = "createRead"
  /\ \E resp \in DescribeOutcomes :
       LET f == findAccountSubscriptionByID(resp)
           rr == resourceAccountSubscriptionRead(d, IsNewResource, f)
       IN  /\ fetched' = f
           /\ steps' = steps \cup {"read"}
           /\ d' = rr.d
           /\ diags' = rr.diags
           /\ pc' = IF rr.panic THEN "panic" ELSE "idle"
  /\ UNCHANGED << config, IsNewResource, handler, in, callOut, notfoundTick,
                  targetOccurence, hist, waitErr >>

\* resourceAccountSubscriptionRead as the Read handler of an established
\* resource
Read ==
  /\ pc = "idle"
  /\ d.id # ""
  /\ \E resp \in DescribeOutcomes :
       LET f == findAccountSubscriptionByID(resp)
           rr == resourceAccountSubscriptionRead(d, FALSE, f)
       IN  /\ fetched' = f
           /\ d' = rr.d
           /\ diags' = rr.diags
           /\ pc' = IF rr.panic THEN "panic" ELSE "idle"
  /\ handler' = "Read"
  /\ IsNewResource' = FALSE
  /\ steps' = {"read"}
  /\ in' = Nil
  /\ callOut' = Nil
  /\ notfoundTick' = 0
  /\ targetOccurence' = 0
  /\ hist' = << >>
  /\ waitErr' = NoErr
  /\ UNCHANGED config

\* resourceAccountSubscriptionDelete up to the start of the wait: the delete
\* call and the two checks of its error
DeleteCall ==
  /\ pc = "idle"
  /\ d.id # ""
  /\ \E err \in DeleteOutcomes :
       /\ callOut' = [out |-> Nil, err |-> err]
       /\ LET c == deleteCallReturned(d.id, err)
          IN  /\ diags' = c.diags
              /\ pc' = c.pc
  /\ handler' = "Delete"
  /\ IsNewResource' = FALSE
  /\ steps' = {"delete"}
  /\ in' = Nil
  /\ notfoundTick' = 0
  /\ targetOccurence' = 0
  /\ hist' = << >>
  /\ waitErr' = NoErr
  /\ fetched' = Nil
  /\ UNCHANGED << config, d >>

Next ==
  \/ CreateCall
  \/ Poll
  \/ Timeout
  \/ ReadBack
  \/ Read
  \/ DeleteCall

Spec == Init /\ [][Next]_vars

\* ------------------------------------------------------------- fairness
\* as Init, on the configuration of the required attributes alone: the waits
\* read nothing of the configuration but the id
InitFair ==
  /\ Init
  /\ config.aws_account_id = ""
  /\ \A a \in OptionalStrings : config[a] = ""
  /\ \A a \in OptionalLists : config[a] = << >>

\* the timer of a wait fires, and its refresh loop keeps refreshing
SpecFair == InitFair /\ [][Next]_vars /\ WF_vars(Timeout) /\ WF_vars(Poll)

\* ------------------------------------------- request construction alone
\* configurations in which every optional attribute is given or omitted on its
\* own, each with a value of its own
AllConfigs ==
  [ id : {""},
    aws_account_id : {"", "111111111111"},
    account_name : {"acme"},
    authentication_method : {"IAM_IDENTITY_CENTER"},
    edition : {"ENTERPRISE"},
    notification_email : {"a@b.com"},
    account_subscription_status : {""},
    active_directory_name : {"", "ad"},
    admin_group : {<< >>, <<"admins">>},
    author_group : {<< >>, <<"authors">>},
    reader_group : {<< >>, <<"readers">>},
    contact_number : {"", "555"},
    directory_id : {"", "dir"},
    email_address : {"", "e@f.com"},
    first_name : {"", "first"},
    iam_identity_center_instance_arn : {"", "arn"},
    last_name : {"", "last"},
    realm : {"", "realm"} ]

\* as Init, over AllConfigs
InitRequest ==
  /\ config \in AllConfigs
  /\ d = config
  /\ IsNewResource = FALSE
  /\ handler = "none"
  /\ pc = "idle"
  /\ steps = {}
  /\ in = Nil
  /\ callOut = Nil
  /\ notfoundTick = 0
  /\ targetOccurence = 0
  /\ hist = << >>
  /\ waitErr = NoErr
  /\ fetched = Nil
  /\ diags = NoDiags

\* Create up to the start of its wait, on every configuration
NextRequest == CreateCall

SpecRequest == InitRequest /\ [][NextRequest]_vars

\* ------------------------------------------------------------ properties
\* the handler has performed a Read (as the Read handler, or as the read-back
\* of Create) and fetched holds the lookup result it worked on
HasRead == "read" \in steps

ReadFetchFailed == HasRead /\ fetched.err # NoErr /\ ~NotFound(fetched.err)
ReadFetchNotFound == HasRead /\ NotFound(fetched.err)
ReadFetchUnsubscribed ==
  /\ HasRead
  /\ fetched.err = NoErr
  /\ awsToString(fetched.out.AccountSubscriptionStatus) = statusUnsuscribed

ReadErrorOf(id, err) == << [action |-> ErrActionReading, name |-> id, err |-> err] >>

\* C1: whenever the lookup of a Read fails with an error that is not a
\* not-found error, on a new or an established resource, Read returns a
\* ReadError diagnostic carrying that error, with the id kept and without
\* aborting in any other way.
C1_FetchErrorIsReadError ==
  ReadFetchFailed =>
    /\ pc = "idle"
    /\ d.id # ""
    /\ diags = ReadErrorOf(d.id, fetched.err)

\* C2: a Read of an established resource whose lookup succeeds with status
\* UNSUBSCRIBED clears the id, returns no diagnostic and changes no other
\* attribute.
C2_UnsubscribedClearsId ==
  [][ ( /\ handler' = "Read"
        /\ fetched'.err = NoErr
        /\ awsToString(fetched'.out.AccountSubscriptionStatus) = statusUnsuscribed )
      => ( /\ d' = [d EXCEPT !.id = ""]
           /\ diags' = NoDiags
           /\ pc' = "idle" ) ]_vars

C2_Witness ==
  /\ handler = "Read"
  /\ ReadFetchUnsubscribed
  /\ d.id = ""
  /\ d.account_name = "acme"
  /\ d.account_subscription_status # statusUnsuscribed
  /\ diags = NoDiags

\* C3: a Read of a newly created resource whose lookup reports not-found
\* returns an error diagnostic and leaves the id set.
C3_NewNotFoundIsError ==
  (handler = "Create" /\ ReadFetchNotFound) =>
    /\ d.id = awsAccountId(config)
    /\ d.id # ""
    /\ diags = ReadErrorOf(d.id, fetched.err)
    /\ pc = "idle"

C3_Witness ==
  /\ handler = "Create"
  /\ IsNewResource
  /\ ReadFetchNotFound
  /\ fetched.err = ErrNotFound
  /\ d.id # ""
  /\ Len(diags) = 1

\* C4 as claimed: a Read of a newly created resource whose lookup returns
\* status UNSUBSCRIBED returns an error diagnostic and keeps the id.
C4_NewUnsubscribedIsError ==
  (handler = "Create" /\ ReadFetchUnsubscribed) => (diags # NoDiags /\ d.id # "")

\* What the code does in the case of C4: a Read of a newly created resource
\* whose lookup returns status UNSUBSCRIBED keeps the id, returns no diagnostic
\* and stores the fetched fields as any successful read does, the status
\* UNSUBSCRIBED among them.
C4_NewUnsubscribedIsPlainRead ==
  (handler = "Create" /\ ReadFetchUnsubscribed) =>
    /\ d.id = awsAccountId(config)
    /\ d.id # ""
    /\ diags = NoDiags
    /\ pc = "idle"
    /\ d.account_subscription_status = statusUnsuscribed
    /\ d = SetFromAccountInfo(SetId(config, awsAccountId(config)), fetched.out)

C4_Witness ==
  /\ handler = "Create"
  /\ IsNewResource
  /\ ReadFetchUnsubscribed
  /\ d.account_subscription_status = statusUnsuscribed
  /\ d.id # ""

\* C5: a Read of an established resource whose lookup reports not-found clears
\* the id and returns no diagnostic; and a Read clears the id only when the
\* resource is not new and the lookup reported not-found or status
\* UNSUBSCRIBED.
C5_IdClearedOnlyWhenAbsent ==
  [][ /\ (handler' = "Read" /\ NotFound(fetched'.err))
         => (d' = [d EXCEPT !.id = ""] /\ diags' = NoDiags /\ pc' = "idle")
      /\ ("read" \in steps' /\ d.id # "" /\ d'.id = "")
         => ( /\ ~IsNewResource'
              /\ \/ NotFound(fetched'.err)
                 \/ /\ fetched'.err = NoErr
                    /\ awsToString(fetched'.out.AccountSubscriptionStatus)
                         = statusUnsuscribed ) ]_vars

C5_Witness ==
  /\ handler = "Read"
  /\ ReadFetchNotFound
  /\ fetched.err = ErrNotFound
  /\ d.id = ""
  /\ diags = NoDiags

\* C6: when the delete call reports resource-not-found, Delete returns with no
\* diagnostics and without a wait: no status poll is issued.
C6_DeleteNotFoundSucceeds ==
  (handler = "Delete" /\ callOut.err = ErrResourceNotFound) =>
    /\ pc = "idle"
    /\ diags = NoDiags
    /\ steps = {"delete"}
    /\ hist = << >>

C6_Witness ==
  /\ handler = "Delete"
  /\ callOut.err = ErrResourceNotFound
  /\ pc = "idle"
  /\ diags = NoDiags
  /\ d.account_subscription_status = statusUnsuscribed

\* the create wait of this Create invocation has returned without error
CreateWaitSucceeded == handler = "Create" /\ (pc = "createRead" \/ HasRead)

\* the number of not-found observations at the end of the window h
TrailingNotFound(h) ==
  LET found == {i \in 1..Len(h) : h[i] # ObsNotFound}
  IN  IF found = {} THEN Len(h)
      ELSE Len(h) - (CHOOSE i \in found : \A j \in found : j <= i)

\* this step is a refresh of the wait at `at` that observed o
PollObserved(at, o) ==
  /\ pc = at
  /\ "poll" \in steps'
  /\ hist' = Remember(hist, o)
  /\ waitErr' # ErrTimeout
  /\ pc' # "panic"

\* C7 as claimed: the create wait succeeds only when its last two observations
\* are both target statuses (ACCOUNT_CREATED or OK).
C7_LastTwoObservationsAreTargets ==
  CreateWaitSucceeded =>
    /\ Len(hist) >= 2
    /\ hist[Len(hist)] \in {statusCreated, statusOk}
    /\ hist[Len(hist) - 1] \in {statusCreated, statusOk}

\* C7 as amended: the create wait succeeds only on a target observation that
\* follows an earlier target observation with no pending observation between
\* them; not-found observations between the two do not reset the count.  A
\* single target observation never yields success.  On the observations
\* SIGNUP_ATTEMPT_IN_PROGRESS, SIGNUP_ATTEMPT_IN_PROGRESS, ACCOUNT_CREATED,
\* ACCOUNT_CREATED the wait succeeds at the 4th and not at the 3rd.
C7_TwoTargetsNoPendingBetween ==
  /\ CreateWaitSucceeded =>
       /\ Len(hist) >= 2
       /\ hist[Len(hist)] \in {statusCreated, statusOk}
       /\ LET before == SubSeq(hist, 1, Len(hist) - 1)
              k == Len(before) - TrailingNotFound(before)
          IN  IF k = 0 THEN Len(hist) = MaxHist
              ELSE before[k] \in {statusCreated, statusOk}
  /\ ( /\ handler = "Create"
       /\ hist = << statusSignupAttemptInProgress, statusSignupAttemptInProgress,
                    statusCreated, statusCreated >> )
     => CreateWaitSucceeded
  /\ ( /\ handler = "Create"
       /\ hist = << statusSignupAttemptInProgress, statusSignupAttemptInProgress,
                    statusCreated >> )
     => ~CreateWaitSucceeded

C7_Witness ==
  /\ pc = "createRead"
  /\ hist = << statusSignupAttemptInProgress, statusSignupAttemptInProgress,
               statusCreated, statusCreated >>
  /\ targetOccurence = 2
  /\ diags = NoDiags

\* C8: in the create wait a not-found observation leaves the wait pending while
\* it is at most the 20th in a row, the 21st in a row fails the wait with a
\* WaitError, and an observation of any status resets the count of consecutive
\* not-found observations to zero.
C8_NotFoundTolerance ==
  /\ [](pc = "createWait" =>
          /\ notfoundTick <= 20
          /\ (TrailingNotFound(hist) < Len(hist) \/ Len(hist) < MaxHist)
               => notfoundTick = TrailingNotFound(hist))
  /\ [][ /\ (PollObserved("createWait", ObsNotFound) /\ notfoundTick < 20)
            => /\ pc' = "createWait"
               /\ notfoundTick' = notfoundTick + 1
               /\ diags' = NoDiags
         /\ (PollObserved("createWait", ObsNotFound) /\ notfoundTick = 20)
            => /\ pc' = "idle"
               /\ notfoundTick' = 21
               /\ diags' = << [action |-> ErrActionWaitingForCreation,
                               name |-> d.id, err |-> ErrNotFound] >>
         /\ \A st \in Statuses :
              PollObserved("createWait", st) => notfoundTick' = 0 ]_vars

C8_Witness ==
  /\ handler = "Create"
  /\ pc = "idle"
  /\ notfoundTick = 21
  /\ waitErr = ErrNotFound
  /\ TrailingNotFound(hist) = MaxHist
  /\ Len(diags) = 1

\* C9: the delete wait succeeds at the first refresh that observes status
\* UNSUBSCRIBED, whatever observations of ACCOUNT_CREATED, OK and
\* UNSUBSCRIBE_IN_PROGRESS came before, and Delete then returns no diagnostic.
C9_FirstUnsubscribedEndsDeleteWait ==
  /\ [](pc = "deleteWait" =>
          \A i \in 1..Len(hist) : hist[i] # statusUnsuscribed)
  /\ [][ PollObserved("deleteWait", statusUnsuscribed)
         => (pc' = "idle" /\ waitErr' = NoErr /\ diags' = NoDiags) ]_vars

C9_Witness ==
  /\ handler = "Delete"
  /\ pc = "idle"
  /\ hist = << statusCreated, statusOk, statusUnsuscribeInProgress, statusUnsuscribed >>
  /\ waitErr = NoErr
  /\ diags = NoDiags

\* the create call of this Create invocation returned a signup response
CreateCallOk ==
  /\ callOut.err = NoErr
  /\ callOut.out # Nil
  /\ callOut.out.SignupResponse # NULL

\* C10 as claimed: every Create invocation that has returned has performed the
\* read-back.
C10_CreateAlwaysReadsBack ==
  (handler = "Create" /\ pc = "idle") => HasRead

\* C10 as amended: a Create invocation that has returned has performed the
\* read-back exactly when its create call returned a signup response and its
\* create wait succeeded; a Create that fails in the create call or in the wait
\* returns without it.
C10_ReadBackAfterSuccessfulWait ==
  (handler = "Create" /\ pc = "idle") =>
    /\ HasRead <=> (CreateCallOk /\ "poll" \in steps /\ waitErr = NoErr)
    /\ HasRead => fetched # Nil

C10_Witness ==
  /\ handler = "Create"
  /\ pc = "idle"
  /\ HasRead
  /\ CreateCallOk
  /\ diags = NoDiags
  /\ d.account_subscription_status = statusOk

\* C11: when the create call errors or returns without a signup response,
\* Create returns a CreateError and nothing else happens: the id stays unset,
\* the resource data is as configured, no status poll and no read-back is
\* issued.
C11_FailedCreateCallIsCreateError ==
  (handler = "Create" /\ ~CreateCallOk) =>
    /\ pc = "idle"
    /\ d = config
    /\ d.id = ""
    /\ diags = << [action |-> ErrActionCreating, name |-> "acme",
                   err |-> IF callOut.err # NoErr THEN callOut.err
                           ELSE ErrEmptyOutput] >>
    /\ steps = {"create"}
    /\ hist = << >>
    /\ fetched = Nil

C11_Witness ==
  /\ handler = "Create"
  /\ callOut.err = NoErr
  /\ callOut.out # Nil
  /\ callOut.out.SignupResponse = NULL
  /\ d.id = ""
  /\ Len(diags) = 1
  /\ diags[1].err = ErrEmptyOutput

\* C12: Delete returns without diagnostics only if the delete call reported
\* not-found, or the delete call succeeded and the wait that followed ended on
\* an observation of UNSUBSCRIBED; after a successful delete call a wait that
\* times out or fails makes Delete return a WaitError; and the wait runs only
\* after a delete call that returned without error.
C12_DeleteOutcomes ==
  /\ (handler = "Delete" /\ pc = "idle" /\ diags = NoDiags) =>
       \/ callOut.err = ErrResourceNotFound
       \/ /\ callOut.err = NoErr
          /\ waitErr = NoErr
          /\ Len(hist) > 0
          /\ hist[Len(hist)] = statusUnsuscribed
  /\ (handler = "Delete" /\ pc = "idle" /\ callOut.err = NoErr /\ waitErr # NoErr) =>
       diags = << [action |-> ErrActionWaitingForDeletion, name |-> d.id,
                   err |-> waitErr] >>
  /\ (handler = "Delete" /\ (pc = "deleteWait" \/ "poll" \in steps)) =>
       callOut.err = NoErr

C12_Witness ==
  /\ handler = "Delete"
  /\ pc = "idle"
  /\ callOut.err = NoErr
  /\ waitErr = ErrTimeout
  /\ hist = << statusOk, statusUnsuscribeInProgress >>
  /\ Len(diags) = 1

\* C13: the account id in the create request, and the resource id after a
\* successful create call, is the configured account id when one is given and
\* the ambient account id when it is omitted.
C13_AccountIdConfiguredOrAmbient ==
  handler = "Create" =>
    LET expected == IF config.aws_account_id # "" THEN config.aws_account_id
                    ELSE "999999999999"
    IN  /\ in.AwsAccountId = expected
        /\ CreateCallOk => d.id = expected

C13_Witness ==
  /\ handler = "Create"
  /\ CreateCallOk
  /\ config.aws_account_id = "111111111111"
  /\ in.AwsAccountId = "111111111111"
  /\ d.id = "111111111111"

\* the request field each optional attribute goes to
RequestField ==
  [ active_directory_name |-> "ActiveDirectoryName",
    admin_group |-> "AdminGroup",
    author_group |-> "AuthorGroup",
    reader_group |-> "ReaderGroup",
    contact_number |-> "ContactNumber",
    directory_id |-> "DirectoryId",
    email_address |-> "EmailAddress",
    first_name |-> "FirstName",
    iam_identity_center_instance_arn |-> "IAMIdentityCenterInstanceArn",
    last_name |-> "LastName",
    realm |-> "Realm" ]

\* the request req carries a value for optional attribute a
InRequest(req, a) ==
  IF a \in OptionalLists THEN req[RequestField[a]] # << >>
  ELSE req[RequestField[a]] # NULL

\* the configuration cfg gives a non-empty value for optional attribute a
InConfig(cfg, a) ==
  IF a \in OptionalLists THEN cfg[a] # << >> ELSE cfg[a] # ""

\* C14: an optional attribute is in the create request iff the configuration
\* gives it a non-empty value, and then with that value; so a configuration of
\* the required attributes alone yields a request without any optional field,
\* none of them sent as an empty string or an empty list.
C14_OptionalFieldsOnlyWhenConfigured ==
  handler = "Create" =>
    /\ \A a \in OptionalStrings \cup OptionalLists :
         /\ InRequest(in, a) <=> InConfig(config, a)
         /\ InRequest(in, a) => in[RequestField[a]] = config[a]
         /\ a \in OptionalStrings => in[RequestField[a]] # ""
    /\ (\A a \in OptionalStrings \cup OptionalLists : ~InConfig(config, a))
         => \A a \in OptionalStrings \cup OptionalLists : ~InRequest(in, a)
    /\ in.AccountName = config.account_name
    /\ in.AuthenticationMethod = config.authentication_method
    /\ in.Edition = config.edition
    /\ in.NotificationEmail = config.notification_email

C14_Witness ==
  /\ handler = "Create"
  /\ config.aws_account_id = ""
  /\ \A a \in OptionalStrings \cup OptionalLists : ~InConfig(config, a)
  /\ \A a \in OptionalStrings : in[RequestField[a]] = NULL
  /\ \A a \in OptionalLists : in[RequestField[a]] = << >>
  /\ in.AwsAccountId = "999999999999"
  /\ in.AccountName = "acme"

\* C15 as claimed: the delete wait does not go on across a not-found
\* observation: while it is pending it has observed none.
C15_DeleteWaitEndsOnNotFound ==
  pc = "deleteWait" => \A i \in 1..Len(hist) : hist[i] # ObsNotFound

\* C15 as amended: the delete wait sets no NotFoundChecks and so runs with the
\* default tolerance of 20: a not-found observation leaves it pending while it
\* is at most the 20th in a row, the 21st in a row fails it with a WaitError,
\* and an observation of any status resets the count, as in the create wait.
C15_DeleteWaitToleratesNotFound ==
  /\ [](pc = "deleteWait" =>
          /\ notfoundTick <= 20
          /\ (TrailingNotFound(hist) < Len(hist) \/ Len(hist) < MaxHist)
               => notfoundTick = TrailingNotFound(hist))
  /\ [][ /\ (PollObserved("deleteWait", ObsNotFound) /\ notfoundTick < 20)
            => /\ pc' = "deleteWait"
               /\ notfoundTick' = notfoundTick + 1
               /\ diags' = NoDiags
         /\ (PollObserved("deleteWait", ObsNotFound) /\ notfoundTick = 20)
            => /\ pc' = "idle"
               /\ notfoundTick' = 21
               /\ diags' = << [action |-> ErrActionWaitingForDeletion,
                               name |-> d.id, err |-> ErrNotFound] >>
         /\ \A st \in Statuses :
              PollObserved("deleteWait", st) => notfoundTick' = 0 ]_vars

C15_Witness ==
  /\ handler = "Delete"
  /\ pc = "idle"
  /\ notfoundTick = 21
  /\ waitErr = ErrNotFound
  /\ TrailingNotFound(hist) = MaxHist
  /\ Len(diags) = 1

\* the attributes a successful Read stores
ReadAttributes ==
  {"account_name", "edition", "notification_email", "account_subscription_status",
   "iam_identity_center_instance_arn"}

\* this step is a Read (the Read handler or the read-back of Create) that got
\* as far as storing the fetched AccountInfo
ReadStored ==
  /\ pc = "createRead" \/ (pc = "idle" /\ handler' = "Read")
  /\ "read" \in steps'
  /\ fetched'.err = NoErr
  /\ IsNewResource'
       \/ awsToString(fetched'.out.AccountSubscriptionStatus) # statusUnsuscribed

\* C16: a successful Read stores account name, edition, notification email,
\* status and identity-center instance reference from the response (the empty
\* string for a nil pointer) and changes nothing else: the id and every
\* attribute that is not part of the response keep their values.
C16_ReadStoresFiveAttributes ==
  [][ ReadStored =>
        /\ \A k \in (DOMAIN d) \ ReadAttributes : d'[k] = d[k]
        /\ d'.id = d.id
        /\ d'.account_name = awsToString(fetched'.out.AccountName)
        /\ d'.edition = fetched'.out.Edition
        /\ d'.notification_email = awsToString(fetched'.out.NotificationEmail)
        /\ d'.account_subscription_status
             = awsToString(fetched'.out.AccountSubscriptionStatus)
        /\ d'.iam_identity_center_instance_arn
             = awsToString(fetched'.out.IAMIdentityCenterInstanceArn)
        /\ diags' = NoDiags ]_vars

C16_Witness ==
  /\ handler = "Read"
  /\ pc = "idle"
  /\ fetched.err = NoErr
  /\ d.id = "111111111111"
  /\ d.account_name = "remote"
  /\ d.edition = "STANDARD"
  /\ d.iam_identity_center_instance_arn = "remote"
  /\ d.account_subscription_status = statusOk
  /\ d.authentication_method = "IAM_IDENTITY_CENTER"
  /\ d.contact_number = "cfg"
  /\ d.email_address = "cfg"
  /\ d.admin_group = <<"grp">>

\* C18: a wait fails at once on a status outside its pending and target sets:
\* the create wait on UNSUBSCRIBE_IN_PROGRESS and on UNSUBSCRIBED, the delete
\* wait on SIGNUP_ATTEMPT_IN_PROGRESS; Create and Delete return it as a
\* WaitError.
C18_UnexpectedStatusFailsWait ==
  /\ [](pc = "createWait" =>
          \A i \in 1..Len(hist) :
            hist[i] \notin {statusUnsuscribeInProgress, statusUnsuscribed})
  /\ [](pc = "deleteWait" =>
          \A i \in 1..Len(hist) : hist[i] # statusSignupAttemptInProgress)
  /\ [][ /\ \A st \in {statusUnsuscribeInProgress, statusUnsuscribed} :
              PollObserved("createWait", st)
                => /\ pc' = "idle"
                   /\ waitErr' = ErrUnexpectedState
                   /\ diags' = << [action |-> ErrActionWaitingForCreation,
                                   name |-> d.id, err |-> ErrUnexpectedState] >>
         /\ PollObserved("deleteWait", statusSignupAttemptInProgress)
              => /\ pc' = "idle"
                 /\ waitErr' = ErrUnexpectedState
                 /\ diags' = << [action |-> ErrActionWaitingForDeletion,
                                 name |-> d.id, err |-> ErrUnexpectedState] >> ]_vars

C18_Witness ==
  /\ handler = "Create"
  /\ pc = "idle"
  /\ hist = << statusSignupAttemptInProgress, statusCreated, statusUnsuscribed >>
  /\ waitErr = ErrUnexpectedState
  /\ Len(diags) = 1
  /\ diags[1].action = ErrActionWaitingForCreation

\* C19: while and after Create runs the id is set iff the create call returned
\* a signup response; it is set, to the account id of the request, when the
\* wait begins; and when the wait times out or fails Create returns a
\* WaitError with the id still set to that account id and without a read-back.
C19_IdSetBeforeWait ==
  handler = "Create" =>
    /\ d.id # "" <=> CreateCallOk
    /\ pc = "createWait" => (d.id # "" /\ d.id = in.AwsAccountId)
    /\ (pc = "idle" /\ CreateCallOk /\ waitErr # NoErr) =>
         /\ d.id # ""
         /\ d.id = in.AwsAccountId
         /\ diags = << [action |-> ErrActionWaitingForCreation, name |-> d.id,
                        err |-> waitErr] >>
         /\ ~HasRead
         /\ fetched = Nil

C19_Witness ==
  /\ handler = "Create"
  /\ pc = "idle"
  /\ CreateCallOk
  /\ waitErr = ErrTimeout
  /\ hist = << statusSignupAttemptInProgress, statusCreated >>
  /\ d.id = "999999999999"
  /\ ~HasRead

\* a wait of this handler invocation has returned to the handler
WaitEnded ==
  \/ handler = "Create" /\ CreateCallOk /\ pc \in {"idle", "createRead"}
  \/ handler = "Delete" /\ callOut.err = NoErr /\ pc = "idle"

\* the wait that ended did so with success on a target status, or with a
\* WaitError for one of the errors in errs
WaitOutcomeIn(errs) ==
  \/ /\ waitErr = NoErr
     /\ Len(hist) > 0
     /\ hist[Len(hist)] \in
          (IF handler = "Create" THEN {statusCreated, statusOk} ELSE {statusUnsuscribed})
  \/ /\ waitErr \in errs
     /\ waitErr = ErrNotFound => notfoundTick = 21
     /\ waitErr = ErrOther => (Len(hist) > 0 /\ hist[Len(hist)] = ObsError)
     /\ diags = << [action |-> IF handler = "Create" THEN ErrActionWaitingForCreation
                               ELSE ErrActionWaitingForDeletion,
                    name |-> d.id, err |-> waitErr] >>

====
